---- MODULE Spec2Model ----
(***************************************************************************)
(* Venus v4 (isolated pools) tag module, src/src/main.mts.                  *)
(*                                                                         *)
(* A JavaScript string is modelled as the sequence of its characters, each *)
(* character a one-character TLA+ string, so that length, substring,       *)
(* trimming, searching and replacing are computed rather than assumed.     *)
(***************************************************************************)
EXTENDS Integers, Sequences, FiniteSets, TLC

(***************************************************************************)
(* Strings                                                                 *)
(***************************************************************************)

\* The characters String.prototype.trim removes (WhiteSpace and
\* LineTerminator), restricted to the ones the inputs below use.
\* "nbsp" stands for U+00A0.
WhiteSpace == {" ", "\t", "\n", "nbsp"}

Digit == {"0", "1", "2", "3", "4", "5", "6", "7", "8", "9"}

HexDigit == Digit \cup {"a", "b", "c", "d", "e", "f", "A", "B", "C", "D", "E", "F"}

\* n copies of the character c
Repeat(c, n) == [i \in 1..n |-> c]

\* text.substring(from, to) with 0 <= from <= to, JavaScript's 0-based,
\* end-exclusive indices clamped to the length.
Substring(text, from, to) ==
    LET hi == IF to > Len(text) THEN Len(text) ELSE to
    IN  IF from >= hi THEN << >> ELSE SubSeq(text, from + 1, hi)

\* whether pat occurs in text at 1-based position i
OccursAt(text, pat, i) ==
    /\ i >= 1
    /\ i + Len(pat) - 1 <= Len(text)
    /\ \A k \in 1..Len(pat) : text[i + k - 1] = pat[k]

\* text.includes(pat)
Contains(text, pat) == \E i \in 1..(Len(text) + 1) : OccursAt(text, pat, i)

\* text.indexOf(pat) as a 1-based position, 0 when absent
IndexOf(text, pat) ==
    IF Contains(text, pat)
    THEN CHOOSE i \in 1..(Len(text) + 1) :
            /\ OccursAt(text, pat, i)
            /\ \A j \in 1..(i - 1) : ~OccursAt(text, pat, j)
    ELSE 0

\* text.trim(): the text without its leading and trailing white space
Trim(text) ==
    LET keep == {i \in 1..Len(text) : text[i] \notin WhiteSpace}
    IN  IF keep = {} THEN << >>
        ELSE LET lo == CHOOSE i \in keep : \A j \in keep : i <= j
                 hi == CHOOSE i \in keep : \A j \in keep : j <= i
             IN  SubSeq(text, lo, hi)

\* the decimal digits of a natural number, as String(n) gives them
RECURSIVE DigitsOf(_)
DigitsOf(n) ==
    LET d == <<"0", "1", "2", "3", "4", "5", "6", "7", "8", "9">>[(n % 10) + 1]
    IN  IF n < 10 THEN <<d>> ELSE Append(DigitsOf(n \div 10), d)

\* parts.join(sep)
RECURSIVE Join(_, _)
Join(parts, sep) ==
    IF Len(parts) = 0 THEN << >>
    ELSE IF Len(parts) = 1 THEN parts[1]
    ELSE parts[1] \o sep \o Join(Tail(parts), sep)

(***************************************************************************)
(* Lines 84-107: isError, containsInvalidValue, truncateString             *)
(***************************************************************************)

\* A thrown value: an Error object (with its name and message) or any other
\* value, which has no string message.
ErrorObject(name, message) == [isObject |-> TRUE, name |-> name, message |-> message]

ErrorName == <<"E","r","r","o","r">>

TypeErrorName == <<"T","y","p","e","E","r","r","o","r">>

URIErrorName == <<"U","R","I","E","r","r","o","r">>

SyntaxErrorName == <<"S","y","n","t","a","x","E","r","r","o","r">>

FetchErrorName == <<"F","e","t","c","h","E","r","r","o","r">>

\* what response.json() reports for a body that is no JSON
JsonErrorMessage ==
    <<"U","n","e","x","p","e","c","t","e","d"," ","t","o","k","e","n"," ","<"," ","i","n"," ","J","S","O","N"," ","a","t"," ","p","o","s","i","t","i","o","n"," ","0">>

\* String(e) of an Error object with a message: "<name>: <message>"
ErrorToString(e) == e.name \o <<":", " ">> \o e.message

NonErrorValue == [isObject |-> FALSE]

\* isError(e): an object with a string message
isError(e) == e.isObject

\* /<[^>]*>/.test(text): a "<", then characters other than ">", then a ">"
MatchesHtmlRegex(text) ==
    \E i \in 1..Len(text) :
        /\ text[i] = "<"
        /\ \E j \in (i + 1)..Len(text) :
              /\ text[j] = ">"
              /\ \A k \in (i + 1)..(j - 1) : text[k] # ">"

\* a slip: the emptiness test without trim()
containsInvalidValueWithoutTrim(text) ==
    LET containsHtml == MatchesHtmlRegex(text)
        isEmpty == text = << >>
    IN  isEmpty \/ containsHtml

containsInvalidValue(text) ==
    LET containsHtml == MatchesHtmlRegex(text)
        isEmpty == Trim(text) = << >>
    IN  isEmpty \/ containsHtml

\* a slip: maxLength characters kept before the ellipsis
truncateStringKeepingMax(text, maxLength) ==
    IF Len(text) > maxLength
    THEN Substring(text, 0, maxLength) \o <<".", ".", ".">>
    ELSE text

\* a slip: a text of exactly maxLength characters truncated as well
truncateStringAtMax(text, maxLength) ==
    IF Len(text) >= maxLength
    THEN Substring(text, 0, maxLength - 3) \o <<".", ".", ".">>
    ELSE text

truncateString(text, maxLength) ==
    IF Len(text) > maxLength
    THEN Substring(text, 0, maxLength - 3) \o <<".", ".", ".">>
    ELSE text

(***************************************************************************)
(* Lines 4-41: SUBGRAPH_URLS                                               *)
(***************************************************************************)

UrlPrefix == <<"h","t","t","p","s",":","/","/","g","a","t","e","w","a","y",".","t","h","e","g","r","a","p","h",".","c","o","m","/","a","p","i","/">>

Placeholder == <<"[","a","p","i","-","k","e","y","]">>

UrlMiddle == <<"/","d","e","p","l","o","y","m","e","n","t","s","/","i","d","/">>

UrlTemplate(deployment) == UrlPrefix \o Placeholder \o UrlMiddle \o deployment

\* The table's own keys in the order Object.keys gives them: integer-like
\* keys ascending, which is also the order they are written in.
SupportedChainIds ==
    << <<"1">>, <<"1","0">>, <<"5","6">>, <<"1","3","0">>, <<"3","2","4">>,
       <<"8","4","5","3">>, <<"4","2","1","6","1">> >>

DeploymentIds ==
    << <<"Q","m","d","R","A","V","4","d","G","T","7","n","w","N","F","n","B","C","B","J","v","3","2","3","v","x","x","i","Z","r","F","P","H","N","s","6","f","A","r","t","r","o","Q","b","9","1">>,
       <<"Q","m","Z","C","P","n","p","J","B","S","Y","u","F","g","W","h","L","A","E","y","T","k","Y","m","i","4","T","9","o","i","5","y","B","r","w","y","k","d","y","Y","q","m","s","1","7","C">>,
       <<"Q","m","f","V","B","g","x","V","6","G","Y","f","4","8","U","Z","A","e","r","i","8","d","c","J","Q","3","a","1","8","G","f","Y","x","L","5","d","j","M","b","y","W","N","1","y","V","P">>,
       <<"Q","m","Q","R","9","1","T","B","5","G","n","Z","s","4","5","V","J","x","h","M","J","y","m","3","7","6","A","X","3","g","9","J","5","G","A","S","w","p","N","c","6","t","S","9","b","U">>,
       <<"Q","m","d","3","c","e","b","P","8","q","S","V","r","R","H","s","g","e","u","k","W","2","D","k","M","o","1","A","Z","o","c","j","k","g","i","b","m","T","o","W","k","r","p","g","9","3">>,
       <<"Q","m","b","U","1","e","t","6","j","S","3","d","W","H","b","6","n","Y","Y","w","k","t","H","Z","A","e","E","e","5","B","c","W","v","F","B","L","v","M","D","Y","i","X","g","X","G","H">>,
       <<"Q","m","R","6","5","M","7","5","f","i","b","R","f","g","k","T","m","M","5","n","S","C","B","c","h","J","c","J","D","U","P","w","M","t","8","a","3","B","L","M","f","f","w","7","3","6">> >>

\* SUBGRAPH_URLS as a map from its own keys to { decentralized: <template> }
SUBGRAPH_URLS ==
    [c \in {SupportedChainIds[i] : i \in 1..Len(SupportedChainIds)} |->
        LET i == CHOOSE k \in 1..Len(SupportedChainIds) : SupportedChainIds[k] = c
        IN  [decentralized |-> UrlTemplate(DeploymentIds[i])]]

\* Property names every plain object inherits from Object.prototype:
\* SUBGRAPH_URLS[name] is a defined (truthy) value for them although the
\* table has no such key.
ObjectPrototypeKeys ==
    { <<"c","o","n","s","t","r","u","c","t","o","r">>,
      <<"t","o","S","t","r","i","n","g">>,
      <<"v","a","l","u","e","O","f">>,
      <<"h","a","s","O","w","n","P","r","o","p","e","r","t","y">>,
      <<"i","s","P","r","o","t","o","t","y","p","e","O","f">>,
      <<"p","r","o","p","e","r","t","y","I","s","E","n","u","m","e","r","a","b","l","e">>,
      <<"t","o","L","o","c","a","l","e","S","t","r","i","n","g">>,
      <<"_","_","p","r","o","t","o","_","_">> }

\* SUBGRAPH_URLS[chainId]: the entry, an inherited member, or undefined
LookupUrls(chainId) ==
    IF chainId \in DOMAIN SUBGRAPH_URLS
    THEN [kind |-> "entry", decentralized |-> SUBGRAPH_URLS[chainId].decentralized]
    ELSE IF chainId \in ObjectPrototypeKeys
    THEN [kind |-> "inherited"]
    ELSE [kind |-> "undefined"]

(***************************************************************************)
(* Number(string), encodeURIComponent, String.prototype.replace            *)
(***************************************************************************)

AllIn(text, chars) == \A i \in 1..Len(text) : text[i] \in chars

\* digits, with at most one ".", and at least one digit
IsDecimalMantissa(text) ==
    /\ AllIn(text, Digit \cup {"."})
    /\ Cardinality({i \in 1..Len(text) : text[i] = "."}) <= 1
    /\ \E i \in 1..Len(text) : text[i] \in Digit

\* e or E, an optional sign, and at least one digit; or nothing
IsExponentPart(text) ==
    \/ text = << >>
    \/ /\ Len(text) >= 2
       /\ text[1] \in {"e", "E"}
       /\ LET rest == IF text[2] \in {"+", "-"} THEN SubSeq(text, 3, Len(text))
                      ELSE Tail(text)
          IN  Len(rest) >= 1 /\ AllIn(rest, Digit)

IsRadixLiteral(text) ==
    /\ Len(text) >= 3
    /\ text[1] = "0"
    /\ \/ text[2] \in {"x", "X"} /\ AllIn(SubSeq(text, 3, Len(text)), HexDigit)
       \/ text[2] \in {"o", "O"} /\ AllIn(SubSeq(text, 3, Len(text)), {"0","1","2","3","4","5","6","7"})
       \/ text[2] \in {"b", "B"} /\ AllIn(SubSeq(text, 3, Len(text)), {"0","1"})

\* !isNaN(Number(text)): StringToNumber trims the text, reads the empty
\* string as 0, and otherwise wants a signed decimal literal, a signed
\* Infinity or an unsigned 0x/0o/0b literal.
IsNumericString(text) ==
    LET t == Trim(text)
        u == IF Len(t) >= 1 /\ t[1] \in {"+", "-"} THEN Tail(t) ELSE t
    IN  \/ t = << >>
        \/ u = <<"I","n","f","i","n","i","t","y">>
        \/ IsRadixLiteral(t)
        \/ \E p \in 1..Len(u) :
              /\ IsDecimalMantissa(SubSeq(u, 1, p))
              /\ IsExponentPart(SubSeq(u, p + 1, Len(u)))

Letter ==
    {"a","b","c","d","e","f","g","h","i","j","k","l","m","n","o","p","q","r","s","t","u","v","w","x","y","z",
     "A","B","C","D","E","F","G","H","I","J","K","L","M","N","O","P","Q","R","S","T","U","V","W","X","Y","Z"}

\* the characters encodeURIComponent leaves alone
UriUnreserved == Letter \cup Digit \cup {"-", "_", ".", "!", "~", "*", "'", "(", ")"}

\* a lone surrogate code unit, on which encodeURIComponent throws URIError
LoneSurrogate == "surrogate"

\* the UTF-8 percent escapes of the other characters the inputs use
PercentEscape ==
    [c \in {" ", "\t", "\n", "nbsp", "#", "$", "%", "&", "+", ",", "/", ":", ";",
            "<", "=", ">", "?", "@", "[", "]", "backquote"} |->
        CASE c = " "    -> <<"%","2","0">>
          [] c = "\t"   -> <<"%","0","9">>
          [] c = "\n"   -> <<"%","0","A">>
          [] c = "nbsp" -> <<"%","C","2","%","A","0">>
          [] c = "#"    -> <<"%","2","3">>
          [] c = "$"    -> <<"%","2","4">>
          [] c = "%"    -> <<"%","2","5">>
          [] c = "&"    -> <<"%","2","6">>
          [] c = "+"    -> <<"%","2","B">>
          [] c = ","    -> <<"%","2","C">>
          [] c = "/"    -> <<"%","2","F">>
          [] c = ":"    -> <<"%","3","A">>
          [] c = ";"    -> <<"%","3","B">>
          [] c = "<"    -> <<"%","3","C">>
          [] c = "="    -> <<"%","3","D">>
          [] c = ">"    -> <<"%","3","E">>
          [] c = "?"    -> <<"%","3","F">>
          [] c = "@"    -> <<"%","4","0">>
          [] c = "["    -> <<"%","5","B">>
          [] c = "]"    -> <<"%","5","D">>
          [] c = "backquote" -> <<"%","6","0">>]

RECURSIVE EncodeChars(_)
EncodeChars(text) ==
    IF text = << >> THEN << >>
    ELSE (IF Head(text) \in UriUnreserved THEN <<Head(text)>>
          ELSE PercentEscape[Head(text)]) \o EncodeChars(Tail(text))

\* encodeURIComponent(text): the escaped text, or a URIError
encodeURIComponent(text) ==
    IF \E i \in 1..Len(text) : text[i] = LoneSurrogate
    THEN [ok |-> FALSE,
          error |-> ErrorObject(URIErrorName, <<"U","R","I"," ","m","a","l","f","o","r","m","e","d">>)]
    ELSE [ok |-> TRUE, value |-> EncodeChars(text)]

\* GetSubstitution for a string pattern: in the replacement text "$$" is a
\* "$", "$&" the matched text, "$" with a backquote the text before it and
\* "$'" the text after it. "backquote" stands for U+0060.
RECURSIVE GetSubstitution(_, _, _, _)
GetSubstitution(matched, before, after, replacement) ==
    IF replacement = << >> THEN << >>
    ELSE IF Head(replacement) = "$" /\ Len(replacement) >= 2
              /\ replacement[2] \in {"$", "&", "backquote", "'"}
    THEN (CASE replacement[2] = "$" -> <<"$">>
            [] replacement[2] = "&" -> matched
            [] replacement[2] = "backquote" -> before
            [] replacement[2] = "'" -> after)
         \o GetSubstitution(matched, before, after, SubSeq(replacement, 3, Len(replacement)))
    ELSE <<Head(replacement)>>
         \o GetSubstitution(matched, before, after, Tail(replacement))

\* text.replace(pattern, replacement) for a string pattern: the first
\* occurrence only
StringReplace(text, pattern, replacement) ==
    LET pos == IndexOf(text, pattern)
    IN  IF pos = 0 THEN text
        ELSE LET before == SubSeq(text, 1, pos - 1)
                 after == SubSeq(text, pos + Len(pattern), Len(text))
             IN  before \o GetSubstitution(pattern, before, after, replacement) \o after

(***************************************************************************)
(* Lines 143-153: prepareUrl                                               *)
(***************************************************************************)

Throw(e) == [ok |-> FALSE, error |-> e]

Return(v) == [ok |-> TRUE, value |-> v]

UnsupportedChainMessage(chainId) ==
    LET supportedChainIds == Join(SupportedChainIds, <<",", " ">>)
    IN  <<"U","n","s","u","p","p","o","r","t","e","d"," ","o","r"," ","i","n","v","a","l","i","d"," ","C","h","a","i","n"," ","I","D"," ","p","r","o","v","i","d","e","d",":"," ">>
        \o chainId
        \o <<"."," ","O","n","l","y"," ","t","h","e"," ","f","o","l","l","o","w","i","n","g"," ","v","a","l","u","e","s"," ","a","r","e"," ","a","c","c","e","p","t","e","d",":"," ">>
        \o supportedChainIds

\* a slip: the credential put into the URL as it is
prepareUrlWithoutEncoding(chain, key) ==
    LET urls == LookupUrls(chain)
    IN  IF urls.kind = "undefined" \/ ~IsNumericString(chain)
        THEN Throw(ErrorObject(ErrorName, UnsupportedChainMessage(chain)))
        ELSE IF \E i \in 1..Len(key) : key[i] = LoneSurrogate
        THEN Throw(ErrorObject(URIErrorName, <<"U","R","I"," ","m","a","l","f","o","r","m","e","d">>))
        ELSE Return(StringReplace(urls.decentralized, Placeholder, key))

\* a slip: the check without isNaN(Number(chainId))
prepareUrlWithoutNaNCheck(chain, key) ==
    LET urls == LookupUrls(chain)
    IN  IF urls.kind = "undefined"
        THEN Throw(ErrorObject(ErrorName, UnsupportedChainMessage(chain)))
        ELSE IF urls.kind = "inherited"
        THEN Throw(ErrorObject(TypeErrorName,
                <<"C","a","n","n","o","t"," ","r","e","a","d"," ","p","r","o","p","e","r","t","i","e","s"," ","o","f"," ","u","n","d","e","f","i","n","e","d"," ","(","r","e","a","d","i","n","g"," ","'","r","e","p","l","a","c","e","'",")">>))
        ELSE LET encoded == encodeURIComponent(key)
             IN  IF ~encoded.ok THEN Throw(encoded.error)
                 ELSE Return(StringReplace(urls.decentralized, Placeholder, encoded.value))

prepareUrl(chainId, apiKey) ==
    LET urls == LookupUrls(chainId)
    IN  IF urls.kind = "undefined" \/ ~IsNumericString(chainId)
        THEN Throw(ErrorObject(ErrorName, UnsupportedChainMessage(chainId)))
        ELSE IF urls.kind = "inherited"
        THEN Throw(ErrorObject(TypeErrorName,
                <<"C","a","n","n","o","t"," ","r","e","a","d"," ","p","r","o","p","e","r","t","i","e","s"," ","o","f"," ","u","n","d","e","f","i","n","e","d"," ","(","r","e","a","d","i","n","g"," ","'","r","e","p","l","a","c","e","'",")">>))
        ELSE LET key == encodeURIComponent(apiKey)
             IN  IF ~key.ok THEN Throw(key.error)
                 ELSE Return(StringReplace(urls.decentralized, Placeholder, key.value))

(***************************************************************************)
(* Lines 43-59: Market, GraphQLData, GraphQLResponse                       *)
(***************************************************************************)

\* JSON values of the response body, tagged with their JavaScript type
Undefined == [t |-> "undefined"]

Null == [t |-> "null"]

Array(items) == [t |-> "array", items |-> items]

Object(fields) == [t |-> "object", fields |-> fields]

\* ToBoolean on those values: only undefined and null are falsy; an array,
\* an empty one too, and an object are truthy
Truthy(v) == v.t \notin {"undefined", "null"}

Market(id, name, symbol, accrualBlockNumber) ==
    [id |-> id, name |-> name, symbol |-> symbol,
     accrualBlockNumber |-> accrualBlockNumber]

(***************************************************************************)
(* Lines 109-141: fetchData, applied to the response of its request        *)
(***************************************************************************)

\* What the request of one fetchData call comes back with: fetch() rejects
\* (rejected, reason), or resolves to a response with response.ok and
\* response.status whose body either is no JSON (valid = FALSE) or parses
\* to an envelope with the members errors and data.
Rejection(reason) == [rejected |-> TRUE, reason |-> reason]

HttpResponse(status, valid, errors, data) ==
    [rejected |-> FALSE, ok |-> status \in 200..299, status |-> status,
     valid |-> valid, errors |-> errors, data |-> data]

GraphQLErrorLine(message) ==
    <<"G","r","a","p","h","Q","L"," ","e","r","r","o","r",":"," ">> \o message

AggregateErrorMessage ==
    <<"G","r","a","p","h","Q","L"," ","e","r","r","o","r","s"," ","o","c","c","u","r","r","e","d",":"," ","s","e","e"," ","l","o","g","s"," ","f","o","r"," ","d","e","t","a","i","l","s",".">>

NoDataMessage ==
    <<"N","o"," ","m","a","r","k","e","t","s"," ","d","a","t","a"," ","f","o","u","n","d",".">>

HttpErrorMessage(status) ==
    <<"H","T","T","P"," ","e","r","r","o","r",":"," ">> \o DigitsOf(status)

ConsoleError(text) == [level |-> "error", text |-> text, list |-> << >>]

ConsoleLog(text, list) == [level |-> "log", text |-> text, list |-> list]

\* the console output of fetchData: one line per entry of result.errors
fetchDataLog(response) ==
    IF ~response.rejected /\ response.ok /\ response.valid /\ Truthy(response.errors)
    THEN [i \in 1..Len(response.errors.items) |->
            ConsoleError(GraphQLErrorLine(response.errors.items[i].message))]
    ELSE << >>

\* a slip: the data payload looked at before the errors
fetchDataPreferringData(response) ==
    IF response.rejected THEN Throw(response.reason)
    ELSE IF ~response.ok
    THEN Throw(ErrorObject(ErrorName, HttpErrorMessage(response.status)))
    ELSE IF ~response.valid
    THEN Throw(ErrorObject(SyntaxErrorName, JsonErrorMessage))
    ELSE IF Truthy(response.data) /\ Truthy(response.data.fields.markets)
    THEN Return(response.data.fields.markets)
    ELSE IF Truthy(response.errors)
    THEN Throw(ErrorObject(ErrorName, AggregateErrorMessage))
    ELSE Throw(ErrorObject(ErrorName, NoDataMessage))

\* the outcome of fetchData: the markets member of the payload, or the
\* error thrown
fetchData(response) ==
    IF response.rejected THEN Throw(response.reason)
    ELSE IF ~response.ok
    THEN Throw(ErrorObject(ErrorName, HttpErrorMessage(response.status)))
    ELSE IF ~response.valid
    THEN Throw(ErrorObject(SyntaxErrorName, JsonErrorMessage))
    ELSE IF Truthy(response.errors)
    THEN Throw(ErrorObject(ErrorName, AggregateErrorMessage))
    ELSE IF ~Truthy(response.data) \/ ~Truthy(response.data.fields.markets)
    THEN Throw(ErrorObject(ErrorName, NoDataMessage))
    ELSE Return(response.data.fields.markets)

(***************************************************************************)
(* Lines 155-191: transformMarketsToTags                                   *)
(***************************************************************************)

MaxSymbolLength == 44

RejectedNameLine(market) ==
    <<"M","a","r","k","e","t",":"," ">> \o market.id
    \o <<" ","r","e","j","e","c","t","e","d"," ","d","u","e"," ","t","o"," ","i","n","v","a","l","i","d"," ","n","a","m","e"," ","-"," ","N","a","m","e",":"," ">>
    \o market.name

RejectedSymbolLine(market) ==
    <<"M","a","r","k","e","t",":"," ">> \o market.id
    \o <<" ","r","e","j","e","c","t","e","d"," ","d","u","e"," ","t","o"," ","i","n","v","a","l","i","d"," ","s","y","m","b","o","l"," ","-"," ","S","y","m","b","o","l",":"," ">>
    \o market.symbol

\* what one market pushes on the rejected list
RejectedLines(market) ==
    (IF containsInvalidValue(market.name) THEN <<RejectedNameLine(market)>> ELSE << >>)
    \o (IF containsInvalidValue(market.symbol) THEN <<RejectedSymbolLine(market)>> ELSE << >>)

\* the rejected list after markets[lo..hi], in the order forEach visits them
RECURSIVE RejectedBetween(_, _, _)
RejectedBetween(markets, lo, hi) ==
    IF lo > hi THEN << >>
    ELSE IF lo = hi THEN RejectedLines(markets[lo])
    ELSE LET mid == (lo + hi) \div 2
         IN  RejectedBetween(markets, lo, mid) \o RejectedBetween(markets, mid + 1, hi)

IsValidMarket(market) ==
    LET nameInvalid == containsInvalidValue(market.name)
        symbolInvalid == containsInvalidValue(market.symbol)
    IN  ~(nameInvalid \/ symbolInvalid)

\* a slip: the name truncated like the symbol
ContractTagTruncatingName(chain, market) ==
    [contractAddress |-> <<"e","i","p","1","5","5",":">> \o chain \o <<":">> \o market.id,
     publicNameTag |-> truncateString(market.symbol, MaxSymbolLength) \o <<" ","T","o","k","e","n">>,
     projectName |-> <<"V","e","n","u","s"," ","v","4">>,
     websiteLink |-> <<"h","t","t","p","s",":","/","/","v","e","n","u","s",".","i","o","/">>,
     publicNote |-> <<"V","e","n","u","s"," ","v","4","'","s"," ","o","f","f","i","c","i","a","l"," ">>
                    \o truncateString(market.name, MaxSymbolLength)
                    \o <<" ","t","o","k","e","n"," ","(","I","s","o","l","a","t","e","d",")">>]

\* The ContractTag of one valid market. The fields are, in the order of the
\* source, "Contract Address", "Public Name Tag", "Project Name",
\* "UI/Website Link" and "Public Note".
ContractTag(chainId, market) ==
    LET truncatedSymbol == truncateString(market.symbol, MaxSymbolLength)
    IN  [contractAddress |-> <<"e","i","p","1","5","5",":">> \o chainId \o <<":">> \o market.id,
         publicNameTag |-> truncatedSymbol \o <<" ","T","o","k","e","n">>,
         projectName |-> <<"V","e","n","u","s"," ","v","4">>,
         websiteLink |-> <<"h","t","t","p","s",":","/","/","v","e","n","u","s",".","i","o","/">>,
         publicNote |-> <<"V","e","n","u","s"," ","v","4","'","s"," ","o","f","f","i","c","i","a","l"," ">>
                        \o market.name
                        \o <<" ","t","o","k","e","n"," ","(","I","s","o","l","a","t","e","d",")">>]

transformMarketsToTags(chainId, markets) ==
    LET validMarkets == SelectSeq(markets, IsValidMarket)
    IN  [i \in 1..Len(validMarkets) |-> ContractTag(chainId, validMarkets[i])]

\* the console output of transformMarketsToTags
transformLog(markets) ==
    LET rejected == RejectedBetween(markets, 1, Len(markets))
    IN  IF Len(rejected) > 0
        THEN <<ConsoleLog(<<"R","e","j","e","c","t","e","d"," ","m","a","r","k","e","t","s",":">>, rejected)>>
        ELSE << >>

(***************************************************************************)
(* Inputs: chain identifiers, credentials, market records                  *)
(***************************************************************************)

\* the supported identifiers, and identifiers the table does not hold:
\* "2", "", "abc", "constructor", "__proto__", "1.0", " 56", "056", "0x38"
ChainIds ==
    {SupportedChainIds[i] : i \in 1..Len(SupportedChainIds)}
    \cup { <<"2">>, << >>, <<"a","b","c">>,
           <<"c","o","n","s","t","r","u","c","t","o","r">>,
           <<"_","_","p","r","o","t","o","_","_">>,
           <<"1",".","0">>, <<" ","5","6">>, <<"0","5","6">>, <<"0","x","3","8">> }

\* credentials: "3f9a", "", "a/b c", "[api-key]", "$&", "k$$", and one
\* holding a lone surrogate
ApiKeys ==
    { <<"3","f","9","a">>, << >>, <<"a","/","b"," ","c">>,
      <<"[","a","p","i","-","k","e","y","]">>, <<"$","&">>, <<"k","$","$">>,
      <<"k", LoneSurrogate>> }

\* names and symbols of market records
MarketKinds ==
    << \* 1: a plain market
       [name |-> <<"V","e","n","u","s"," ","U","S","D","C">>, symbol |-> <<"v","U","S","D","C">>],
       \* 2: an empty name
       [name |-> << >>, symbol |-> <<"v","D","A","I">>],
       \* 3: a symbol of white space only
       [name |-> <<"V","e","n","u","s"," ","D","A","I">>, symbol |-> <<" ","\t","nbsp">>],
       \* 4: a name holding HTML tags
       [name |-> <<"V","e","n","u","s"," ","<","b",">","D","A","I","<","/","b",">">>, symbol |-> <<"v","D","A","I">>],
       \* 5: a symbol holding "<>", and a name of one blank
       [name |-> <<" ">>, symbol |-> <<"v","<",">">>],
       \* 6: a ">" before a "<" and a lone "<": no tag
       [name |-> <<"a",">","b","<","c">>, symbol |-> <<"<","v">>],
       \* 7: a symbol of exactly MaxSymbolLength characters
       [name |-> <<"V","e","n","u","s"," ","W","E","T","H">>, symbol |-> <<"v">> \o Repeat("W", MaxSymbolLength - 1)],
       \* 8: a symbol one character longer
       [name |-> <<"V","e","n","u","s"," ","W","B","T","C">>, symbol |-> <<"v">> \o Repeat("B", MaxSymbolLength)],
       \* 9: a long name and a long symbol, with blanks around the symbol
       [name |-> <<"V","e","n","u","s"," ">> \o Repeat("n", MaxSymbolLength + 6),
        symbol |-> <<" ","v">> \o Repeat("L", MaxSymbolLength + 3) \o <<" ">>] >>

\* Records of one generated list: n records whose kinds cycle through
\* kinds, with the ids 0x<first>, 0x<first+1>, ... and block numbers that
\* start at block and rise by one every per records (off shifts where the
\* steps fall), in ascending or in descending order.
RecordList(n, kinds, first, block, per, off, ascending) ==
    [n |-> n, kinds |-> kinds, first |-> first, block |-> block, per |-> per,
     off |-> off, ascending |-> ascending]

RecordAt(d, i) ==
    LET kind == MarketKinds[d.kinds[((i - 1) % Len(d.kinds)) + 1]]
        j == IF d.ascending THEN i ELSE d.n + 1 - i
    IN  Market(<<"0","x">> \o DigitsOf(d.first + i - 1), kind.name, kind.symbol,
               d.block + ((j - 1 + d.off) \div d.per))

Records(d) == [i \in 1..d.n |-> RecordAt(d, i)]

(***************************************************************************)
(* The indexing service: lines 67-82 (GET_MARKETS_QUERY) and the mocked    *)
(* responses of the tests the specification describes                      *)
(***************************************************************************)

\* first: 1000 of the query
QueryFirst == 1000

\* markets.length === 1000 of the loop
PageSize == 1000

MinOf(a, b) == IF a <= b THEN a ELSE b

\* What a service that honours the query answers over a dataset kept in
\* ascending accrualBlockNumber order: the first QueryFirst records with
\* accrualBlockNumber > lastBlock.
GET_MARKETS_QUERY(dataset, lastBlock) ==
    LET matching == SelectSeq(dataset, LAMBDA m : m.accrualBlockNumber > lastBlock)
    IN  SubSeq(matching, 1, MinOf(Len(matching), QueryFirst))

MarketsPayload(markets) == Object([markets |-> Array(markets)])

\* A mocked response: how fetch() settles, the status, whether the body is
\* JSON, its errors member, and its data member: "undefined", "null",
\* "noMarkets" ({}), "nullMarkets" ({markets: null}), "objectMarkets"
\* ({markets: {}}) or "markets" ({markets: [the records of page]}).
MockResponse(net, status, valid, errors, data, page) ==
    [net |-> net, status |-> status, valid |-> valid, errors |-> errors,
     data |-> data, page |-> page]

NoPage == RecordList(0, <<1>>, 1, 1, 1, 0, TRUE)

MockPage(page) == MockResponse("resolve", 200, TRUE, Undefined, "markets", page)

\* the records of mock r as the k-th response of an invocation: the ids
\* follow those of the pages before it
MockRecords(r, k) == Records([r.page EXCEPT !.first = (k - 1) * (PageSize + 1) + 1])

\* the response of the k-th request of an invocation under mock r
ResponseOf(r, k) ==
    IF r.net = "reject"
    THEN Rejection(ErrorObject(FetchErrorName, <<"E","C","O","N","N","R","E","S","E","T">>))
    ELSE IF r.net = "rejectOther"
    THEN Rejection(NonErrorValue)
    ELSE HttpResponse(r.status, r.valid, r.errors,
            CASE r.data = "undefined" -> Undefined
              [] r.data = "null" -> Null
              [] r.data = "noMarkets" -> Object([markets |-> Undefined])
              [] r.data = "nullMarkets" -> Object([markets |-> Null])
              [] r.data = "objectMarkets" -> Object([markets |-> Object(<< >>)])
              [] r.data = "markets" ->
                    MarketsPayload(MockRecords(r, k)))

\* The response to the k-th request of an invocation, sent with lastBlock.
\* A mock that has run out of responses refuses the connection.
EnvResponse(environment, k, cursor) ==
    IF environment.mode = "mock"
    THEN IF k <= Len(environment.responses)
         THEN ResponseOf(environment.responses[k], k)
         ELSE Rejection(ErrorObject(FetchErrorName, <<"E","C","O","N","N","R","E","F","U","S","E","D">>))
    ELSE HttpResponse(200, TRUE, Undefined,
            MarketsPayload(GET_MARKETS_QUERY(Records(environment.dataset), cursor)))

(***************************************************************************)
(* Bounds and the environments the runs are checked in                     *)
(***************************************************************************)

\* the most responses a mocked sequence holds
MaxPages == 2

\* the most full pages a dataset fills
MaxFullPages == 2

\* the number of invocations of returnTags in a run
MaxRuns == 2

AllKinds == [i \in 1..Len(MarketKinds) |-> i]

\* full pages: every kind of record, with block numbers rising to 500000
\* and shared by two records; rejected records only, in descending block
\* order
FullPages ==
    { MockPage(RecordList(PageSize, AllKinds, 1, 500000 - (PageSize \div 2) + 1, 2, 0, TRUE)),
      MockPage(RecordList(PageSize, <<2, 5>>, 1, 7, 1, 0, FALSE)) }

ServiceError(message) == [message |-> message]

ErrorsOne == Array(<<ServiceError(<<"b","a","d"," ","i","n","d","e","x","e","r","s">>)>>)

ErrorsTwo ==
    Array(<<ServiceError(<<"i","n","d","e","x","i","n","g","_","e","r","r","o","r">>),
            ServiceError(<<"t","i","m","e","o","u","t">>)>>)

ShortPage == RecordList(3, <<1>>, 1, 600000, 1, 0, TRUE)

\* responses that end the loop and follow a full page
LastResponses ==
    { MockPage(NoPage),
      MockPage(RecordList(Len(MarketKinds), AllKinds, 1, 600000, 1, 0, TRUE)),
      MockPage(ShortPage),
      MockResponse("reject", 0, FALSE, Undefined, "undefined", NoPage),
      MockResponse("resolve", 500, FALSE, Undefined, "undefined", NoPage),
      MockResponse("resolve", 200, TRUE, ErrorsTwo, "markets", ShortPage),
      MockResponse("resolve", 200, TRUE, Undefined, "undefined", NoPage) }

\* responses that end the loop, as the only response of a mock
OnlyResponses ==
    LastResponses
    \cup { MockPage(RecordList(PageSize - 1, <<1>>, 1, 1, 1, 0, TRUE)),
           MockPage(RecordList(PageSize + 1, <<1>>, 1, 1, 1, 0, TRUE)),
           MockResponse("rejectOther", 0, FALSE, Undefined, "undefined", NoPage),
           MockResponse("resolve", 404, TRUE, ErrorsOne, "undefined", NoPage),
           MockResponse("resolve", 200, FALSE, Undefined, "undefined", NoPage),
           MockResponse("resolve", 200, TRUE, ErrorsOne, "undefined", NoPage),
           MockResponse("resolve", 200, TRUE, ErrorsTwo, "null", NoPage),
           MockResponse("resolve", 200, TRUE, Array(<< >>), "markets", ShortPage),
           MockResponse("resolve", 200, TRUE, Null, "markets", ShortPage),
           MockResponse("resolve", 200, TRUE, Undefined, "null", NoPage),
           MockResponse("resolve", 200, TRUE, Undefined, "noMarkets", NoPage),
           MockResponse("resolve", 200, TRUE, Undefined, "nullMarkets", NoPage),
           MockResponse("resolve", 200, TRUE, Undefined, "objectMarkets", NoPage) }

\* sequences of mocked responses: full pages, then one that ends the loop
RECURSIVE FullPrefixes(_)
FullPrefixes(len) ==
    IF len = 0 THEN {<< >>}
    ELSE {Append(p, f) : p \in FullPrefixes(len - 1), f \in FullPages}

\* a mock that does not honour the query: the records of its second full
\* page have block numbers below the cursor the page is asked with
StaleSequences ==
    { << MockPage(RecordList(PageSize, AllKinds, 1, 500000 - (PageSize \div 2) + 1, 2, 0, TRUE)),
         MockPage(RecordList(PageSize, <<2, 5>>, 1, 7, 1, 0, FALSE)),
         MockPage(ShortPage) >> }

MockSequences ==
    {<<r>> : r \in OnlyResponses}
    \cup UNION {{Append(p, r) : p \in FullPrefixes(len), r \in LastResponses} : len \in 1..(MaxPages - 1)}
    \cup StaleSequences

\* datasets in ascending block order: of 0, 1 and PageSize - 1 records and
\* of whole pages with and without one record more; starting at block 1
\* with one record per block number, or two that do not or do lie on both
\* sides of a page end, or starting at block 0
DatasetSizes ==
    {1, PageSize - 1} \cup {k * PageSize + e : k \in 0..MaxFullPages, e \in {0, 1}}

Datasets ==
    {RecordList(n, <<1, 4, 6>>, 1, s[1], s[2], s[3], TRUE) :
        n \in DatasetSizes, s \in {<<1, 1, 0>>, <<1, 2, 0>>, <<1, 2, 1>>, <<0, 1, 0>>}}

MockOf(responses) == [mode |-> "mock", responses |-> responses]

ServiceOf(dataset) == [mode |-> "service", dataset |-> dataset]

Environments ==
    {MockOf(s) : s \in MockSequences} \cup {ServiceOf(d) : d \in Datasets}

\* The arguments and the environment of a run: every chain identifier with
\* every credential against a one-page mock, and every environment with
\* chain "56" and a plain credential.
Inputs ==
    (ChainIds \X ApiKeys \X {MockOf(<<MockPage(ShortPage)>>)})
    \cup ({<<"5","6">>} \X {<<"3","f","9","a">>} \X Environments)

(***************************************************************************)
(* Lines 193-232: TagService.returnTags                                    *)
(***************************************************************************)

VARIABLES
    chainId,    \* the caller's first argument
    apiKey,     \* the caller's second argument
    env,        \* what answers the requests
    pc,         \* "idle", "loop" (line 205), "await" (line 114/207), "returned", "thrown"
    url,        \* local of returnTags
    lastBlock,  \* local of returnTags
    allTags,    \* local of returnTags
    isMore,     \* local of returnTags
    requests,   \* the requests this invocation has sent: <<[url, lastBlock]>>
    received,   \* the number of responses this invocation has gone through
    console,    \* the lines this invocation wrote with console.error/log
    outcome,    \* what the caller's promise settled with
    run,        \* the number of the invocation
    prev        \* the earlier invocations: <<[outcome, requests, console]>>

vars ==
    <<chainId, apiKey, env, pc, url, lastBlock, allTags, isMore, requests,
      received, console, outcome, run, prev>>

Pending == [ok |-> FALSE, pending |-> TRUE]

\* a slip: the accumulator and the cursor kept outside the function, so
\* that an invocation starts with what the one before left
StaleLocals == [allTags |-> allTags, lastBlock |-> lastBlock, isMore |-> TRUE]

\* lines 199-201: the locals of a new invocation
InitialLocals == [allTags |-> << >>, lastBlock |-> 0, isMore |-> TRUE]

\* Math.max(...values)
MathMax(values) == CHOOSE x \in values : \A y \in values : y <= x

\* a slip: the new tags put in front of the accumulated ones
PushAllInFront(array, items) == items \o array

\* line 209: allTags.push(...tags)
PushAll(array, items) == array \o items

\* a slip: the page counted after validation, so that a full page with a
\* rejected record ends the loop
NextIsMoreCountingValid(markets) == Len(SelectSeq(markets, IsValidMarket)) = PageSize

\* line 211
NextIsMore(markets) == Len(markets) = PageSize

\* a slip: the cursor never moved
NextLastBlockStuck(markets, cursor) == cursor

\* a slip: the cursor taken from the last record of the page, as if the
\* page were always in ascending order
NextLastBlockOfLastRecord(markets, cursor) ==
    IF NextIsMore(markets)
    THEN markets[Len(markets)].accrualBlockNumber
    ELSE cursor

\* lines 212-214
NextLastBlock(markets, cursor) ==
    IF NextIsMore(markets)
    THEN MathMax({markets[i].accrualBlockNumber : i \in 1..Len(markets)})
    ELSE cursor

\* a slip: a failed fetch taken for an empty page, so that the loop ends
\* and the tags accumulated so far are returned
TryFetchSwallowing(response) ==
    LET fetched == fetchData(response)
    IN  IF ~fetched.ok \/ fetched.value.t # "array" THEN Return(<< >>)
        ELSE Return(fetched.value.items)

\* lines 207-208: the markets the try block goes on with, or what it throws.
\* A markets member that is no array has no forEach.
TryFetch(response) ==
    LET fetched == fetchData(response)
    IN  IF ~fetched.ok THEN fetched
        ELSE IF fetched.value.t # "array"
        THEN Throw(ErrorObject(TypeErrorName,
                <<"m","a","r","k","e","t","s",".","f","o","r","E","a","c","h"," ","i","s"," ","n","o","t"," ","a"," ","f","u","n","c","t","i","o","n">>))
        ELSE Return(fetched.value.items)

\* lines 215-223: the catch block's console line and the error it throws
Caught(error) ==
    IF isError(error)
    THEN [line |-> ConsoleError(<<"A","n"," ","e","r","r","o","r"," ","o","c","c","u","r","r","e","d",":"," ">> \o error.message),
          thrown |-> ErrorObject(ErrorName,
                <<"F","a","i","l","e","d"," ","f","e","t","c","h","i","n","g"," ","d","a","t","a",":"," ">> \o ErrorToString(error))]
    ELSE [line |-> ConsoleError(<<"A","n"," ","u","n","k","n","o","w","n"," ","e","r","r","o","r"," ","o","c","c","u","r","r","e","d",".">>),
          thrown |-> ErrorObject(ErrorName,
                <<"A","n"," ","u","n","k","n","o","w","n"," ","e","r","r","o","r"," ","o","c","c","u","r","r","e","d"," ","d","u","r","i","n","g"," ","f","e","t","c","h"," ","o","p","e","r","a","t","i","o","n",".">>)]

Init ==
    /\ \E input \in Inputs :
          /\ chainId = input[1]
          /\ apiKey = input[2]
          /\ env = input[3]
    /\ pc = "idle"
    /\ url = << >>
    /\ lastBlock = 0
    /\ allTags = << >>
    /\ isMore = TRUE
    /\ requests = << >>
    /\ received = 0
    /\ console = << >>
    /\ outcome = Pending
    /\ run = 1
    /\ prev = << >>

\* lines 195-203: the call creates the locals and resolves the url; an
\* error of prepareUrl rejects the promise before the loop is entered
Call ==
    /\ pc = "idle"
    /\ allTags' = InitialLocals.allTags
    /\ lastBlock' = InitialLocals.lastBlock
    /\ isMore' = InitialLocals.isMore
    /\ LET prepared == prepareUrl(chainId, apiKey)
       IN  IF prepared.ok
           THEN /\ url' = prepared.value
                /\ pc' = "loop"
                /\ outcome' = outcome
           ELSE /\ url' = url
                /\ pc' = "thrown"
                /\ outcome' = Throw(prepared.error)
    /\ UNCHANGED <<chainId, apiKey, env, requests, received, console, run, prev>>

\* a slip: the fetch not awaited, so that the loop goes round and posts
\* the next query while a response is still to come
SendRequestWithoutAwait ==
    /\ pc \in {"loop", "await"}
    /\ isMore
    /\ Len(requests) < MaxPages + 1
    /\ requests' = Append(requests, [url |-> url, lastBlock |-> lastBlock])
    /\ pc' = "await"
    /\ UNCHANGED <<chainId, apiKey, env, url, lastBlock, allTags, isMore,
                   received, console, outcome, run, prev>>

\* lines 205-207 and 114-121: the loop goes round and fetchData posts the
\* query with the cursor, then waits for the response
SendRequest ==
    /\ pc = "loop"
    /\ isMore
    /\ requests' = Append(requests, [url |-> url, lastBlock |-> lastBlock])
    /\ pc' = "await"
    /\ UNCHANGED <<chainId, apiKey, env, url, lastBlock, allTags, isMore,
                   received, console, outcome, run, prev>>

\* lines 123-141 and 207-223: the response arrives; fetchData checks it,
\* the markets are transformed and pushed, and the cursor moves; or the
\* catch block logs and throws
Resume ==
    /\ pc = "await"
    /\ LET response == EnvResponse(env, Len(requests), lastBlock)
           tried == TryFetch(response)
       IN  IF tried.ok
           THEN LET markets == tried.value
                    tags == transformMarketsToTags(chainId, markets)
                IN  /\ allTags' = PushAll(allTags, tags)
                    /\ isMore' = NextIsMore(markets)
                    /\ lastBlock' = NextLastBlock(markets, lastBlock)
                    /\ console' = console \o fetchDataLog(response) \o transformLog(markets)
                    /\ pc' = "loop"
                    /\ outcome' = outcome
           ELSE LET caught == Caught(tried.error)
                IN  /\ console' = console \o fetchDataLog(response) \o <<caught.line>>
                    /\ outcome' = Throw(caught.thrown)
                    /\ pc' = "thrown"
                    /\ UNCHANGED <<allTags, isMore, lastBlock>>
    /\ received' = received + 1
    /\ UNCHANGED <<chainId, apiKey, env, url, requests, run, prev>>

\* lines 205 and 226: the loop ends and the promise resolves with allTags
ReturnTags ==
    /\ pc = "loop"
    /\ ~isMore
    /\ outcome' = Return(allTags)
    /\ pc' = "returned"
    /\ UNCHANGED <<chainId, apiKey, env, url, lastBlock, allTags, isMore,
                   requests, received, console, run, prev>>

\* lines 231-232: the exported returnTags is called again with the same
\* arguments, against the same environment
CallAgain ==
    /\ pc \in {"returned", "thrown"}
    /\ run < MaxRuns
    /\ prev' = Append(prev, [outcome |-> outcome, requests |-> requests, console |-> console])
    /\ run' = run + 1
    /\ pc' = "idle"
    /\ requests' = << >>
    /\ received' = 0
    /\ console' = << >>
    /\ outcome' = Pending
    /\ UNCHANGED <<chainId, apiKey, env, url, lastBlock, allTags, isMore>>

Next == Call \/ SendRequest \/ Resume \/ ReturnTags \/ CallAgain

Spec == Init /\ [][Next]_vars

\* the positions of an invocation that has not settled; in each of them
\* one of Call, SendRequest, Resume and ReturnTags is enabled, and each of
\* these actions moves the invocation to another position
Unsettled == {"idle", "loop", "await"}

Positions == Unsettled \cup {"returned", "thrown"}

\* the invocation goes on: a step of Call, SendRequest, Resume or ReturnTags
Proceed ==
    /\ pc \in Unsettled
    /\ pc' \in Positions \ {pc}

\* An invocation that has not settled takes its next step: the call runs to
\* its first await, a response that has arrived resumes the loop, and the
\* loop either fetches again or returns. Calling again is up to the caller.
FairSpec == Spec /\ WF_pc(Proceed)

(***************************************************************************)
(* What a run has fetched, read off the requests it sent                   *)
(***************************************************************************)

SupportedSet == {SupportedChainIds[i] : i \in 1..Len(SupportedChainIds)}

\* the number of requests whose response has been handled
Handled == IF pc = "await" THEN Len(requests) - 1 ELSE Len(requests)

\* the response the k-th request of this invocation got
ResponseTo(k) == EnvResponse(env, k, requests[k].lastBlock)

\* the records of the k-th response, none when it was a failure
PageOf(k) ==
    LET tried == TryFetch(ResponseTo(k))
    IN  IF tried.ok THEN tried.value ELSE << >>

\* the records of the responses 1..k, in fetch order
RECURSIVE FetchedUpTo(_)
FetchedUpTo(k) == IF k = 0 THEN << >> ELSE FetchedUpTo(k - 1) \o PageOf(k)

Fetched == FetchedUpTo(Handled)

\* a text the Validator rejects, in the words of the specification: empty,
\* white space only, or holding a "<" with a ">" somewhere after it
IsBlankOrHtml(text) ==
    \/ Len(text) = 0
    \/ \A i \in 1..Len(text) : text[i] \in WhiteSpace
    \/ \E i \in 1..Len(text) : \E j \in (i + 1)..Len(text) : text[i] = "<" /\ text[j] = ">"

IsRejectable(market) == IsBlankOrHtml(market.name) \/ IsBlankOrHtml(market.symbol)

AddressOf(market) == <<"e","i","p","1","5","5",":">> \o chainId \o <<":">> \o market.id

\* the fetched records that are to be accepted, in fetch order
Accepted == SelectSeq(Fetched, LAMBDA m : ~IsRejectable(m))

TagAddresses(tags) == {tags[i].contractAddress : i \in 1..Len(tags)}

(***************************************************************************)
(* C1                                                                      *)
(***************************************************************************)

IsSuccessfulPage(r) ==
    /\ r.net = "resolve"
    /\ r.status \in 200..299
    /\ r.valid
    /\ r.errors \in {Undefined, Null}
    /\ r.data = "markets"

\* the mock answers with N successful pages, all but the last of exactly
\* 1000 records and the last of fewer
OnlyLastPageShort ==
    /\ env.mode = "mock"
    /\ \A k \in 1..Len(env.responses) :
          /\ IsSuccessfulPage(env.responses[k])
          /\ k < Len(env.responses) => env.responses[k].page.n = 1000
          /\ k = Len(env.responses) => env.responses[k].page.n < 1000

\* the tags of the accepted records of the mocked pages 1..k, page after page
RECURSIVE TagsOfPages(_)
TagsOfPages(k) ==
    IF k = 0 THEN << >>
    ELSE LET page == MockRecords(env.responses[k], k)
             kept == SelectSeq(page, LAMBDA m : ~IsRejectable(m))
         IN  TagsOfPages(k - 1) \o [i \in 1..Len(kept) |-> ContractTag(chainId, kept[i])]

\* C1: when the mocked pages 1..N-1 hold exactly 1000 records and page N
\* fewer, returnTags sends exactly N requests (never more, and N when it
\* returns), fails only if the chain or credential was refused before the
\* first request, and returns the tags of the accepted records of page 1,
\* then those of page 2, ..., each page in its own order.
C1_ExactlyNFetchesInOrder ==
    OnlyLastPageShort =>
        /\ Len(requests) <= Len(env.responses)
        /\ pc = "thrown" => requests = << >>
        /\ pc = "returned" =>
              /\ Len(requests) = Len(env.responses)
              /\ outcome.ok
              /\ outcome.value = TagsOfPages(Len(env.responses))

C1_Witness ==
    /\ OnlyLastPageShort
    /\ pc = "returned"
    /\ Len(requests) = 2
    /\ Len(outcome.value) > Len(MarketKinds)
    /\ Len(outcome.value) < 1000
    /\ env.responses[2].page.n = 3
    /\ outcome.value[Len(outcome.value)].contractAddress
          = AddressOf(MockRecords(env.responses[2], 2)[3])

(***************************************************************************)
(* C2                                                                      *)
(***************************************************************************)

\* C2: when a service that honours the query serves a dataset and
\* returnTags returns, every record of the dataset whose name and symbol
\* are acceptable has a tag in the result.
C2_CompleteSet ==
    (env.mode = "service" /\ pc = "returned") =>
        LET dataset == Records(env.dataset)
            wanted == {AddressOf(dataset[i]) :
                          i \in {j \in 1..Len(dataset) : ~IsRejectable(dataset[j])}}
        IN  wanted \subseteq TagAddresses(outcome.value)

(***************************************************************************)
(* C3                                                                      *)
(***************************************************************************)

\* the k-th mocked response makes the try block fail: the request is
\* rejected, the status is no success, the body is no JSON, it has an
\* errors array, or its data holds no markets array
FetchFails(k) ==
    LET r == env.responses[k]
    IN  \/ r.net # "resolve"
        \/ r.status \notin 200..299
        \/ ~r.valid
        \/ r.errors.t = "array"
        \/ r.data # "markets"

\* C3: when the fetch of page k fails, no request follows the k-th, and
\* once the failed response has been handled the invocation has failed with
\* an error and the caller has received no tags, whatever was accumulated.
C3_FailureAbortsWithoutPartialResult ==
    env.mode = "mock" =>
        \A k \in 1..Len(env.responses) :
            FetchFails(k) =>
                /\ Len(requests) <= k
                /\ (Len(requests) = k /\ pc # "await") =>
                      /\ pc = "thrown"
                      /\ ~outcome.ok
                      /\ isError(outcome.error)
                      /\ "value" \notin DOMAIN outcome
                      /\ ~ENABLED SendRequest

C3_Witness ==
    /\ env.mode = "mock"
    /\ pc = "thrown"
    /\ Len(requests) = 2
    /\ FetchFails(2)
    /\ Len(allTags) > 0

(***************************************************************************)
(* C4                                                                      *)
(***************************************************************************)

\* the list at the end of the message names the identifier c as one of its
\* items: after ": " or ", " and before "," or the end
IsListed(message, c) ==
    \E i \in 3..Len(message) :
        /\ OccursAt(message, c, i)
        /\ message[i - 1] = " "
        /\ message[i - 2] \in {":", ","}
        /\ \/ i + Len(c) - 1 = Len(message)
           \/ message[i + Len(c)] = ","

\* C4: for a chain identifier that is no key of the table, or not numeric,
\* the invocation fails without having sent a request, and the message of
\* the error lists every supported identifier.
C4_UnsupportedChainFailsBeforeFetch ==
    ((chainId \notin SupportedSet \/ ~IsNumericString(chainId)) /\ pc # "idle") =>
        /\ pc = "thrown"
        /\ requests = << >>
        /\ ~outcome.ok
        /\ \A c \in SupportedSet : IsListed(outcome.error.message, c)

C4_Witness ==
    /\ chainId = <<"c","o","n","s","t","r","u","c","t","o","r">>
    /\ pc = "thrown"
    /\ requests = << >>

(***************************************************************************)
(* C5                                                                      *)
(***************************************************************************)

AddressesWhere(markets, Test(_)) ==
    {AddressOf(markets[i]) : i \in {j \in 1..Len(markets) : Test(markets[j])}}

\* C5: when returnTags returns, the fetched records whose name or symbol is
\* empty, white space only or holds an HTML tag have no tag in the result,
\* and every other fetched record has one.
C5_InvalidRecordsExcluded ==
    pc = "returned" =>
        LET fetched == Fetched
            tagged == TagAddresses(outcome.value)
        IN  /\ AddressesWhere(fetched, IsRejectable) \cap tagged = {}
            /\ AddressesWhere(fetched, LAMBDA m : ~IsRejectable(m)) = tagged

C5_Witness ==
    /\ pc = "returned"
    /\ \E i \in 1..Len(Fetched) : Len(Fetched[i].name) = 0
    /\ \E i \in 1..Len(Fetched) : Fetched[i].symbol = <<" ", "\t", "nbsp">>
    /\ \E i \in 1..Len(Fetched) : MatchesHtmlRegex(Fetched[i].name)
    /\ Len(allTags) > 0

(***************************************************************************)
(* C6                                                                      *)
(***************************************************************************)

EndsWith(text, suffix) ==
    /\ Len(text) >= Len(suffix)
    /\ SubSeq(text, Len(text) - Len(suffix) + 1, Len(text)) = suffix

\* C6 as the specification states it: every "Public Name Tag" of the result
\* is at most 44 characters long, and ends with "..." when the symbol of
\* its record is longer than 44 characters.
C6_NameTagWithin44 ==
    pc = "returned" =>
        LET accepted == Accepted
            tags == outcome.value
        IN  \A i \in 1..Len(tags) :
                /\ Len(tags[i].publicNameTag) <= 44
                /\ (i <= Len(accepted) /\ Len(accepted[i].symbol) > 44) =>
                      EndsWith(tags[i].publicNameTag, <<".", ".", ".">>)

\* C6, amended: every "Public Name Tag" of the result is a symbol part of
\* at most 44 characters followed by " Token", hence at most 50 characters
\* long; when the symbol of its record is longer than 44 characters the
\* symbol part ends with "...", and the tag with "... Token"; otherwise the
\* symbol part is the symbol.
C6_SymbolPartWithin44 ==
    pc = "returned" =>
        LET accepted == Accepted
            tags == outcome.value
        IN  /\ Len(tags) = Len(accepted)
            /\ \A i \in 1..Len(tags) :
                  LET tag == tags[i].publicNameTag
                      symbol == accepted[i].symbol
                  IN  /\ tags[i].contractAddress = AddressOf(accepted[i])
                      /\ EndsWith(tag, <<" ","T","o","k","e","n">>)
                      /\ Len(tag) - 6 <= 44
                      /\ Len(tag) <= 50
                      /\ Len(symbol) > 44 =>
                            EndsWith(tag, <<".",".","."," ","T","o","k","e","n">>)
                      /\ Len(symbol) <= 44 => tag = symbol \o <<" ","T","o","k","e","n">>

C6_Witness ==
    /\ pc = "returned"
    /\ \E i \in 1..Len(outcome.value) : Len(outcome.value[i].publicNameTag) = 50
    /\ \E i \in 1..Len(Accepted) : Len(Accepted[i].symbol) > 44
    /\ \E i \in 1..Len(Accepted) : Len(Accepted[i].symbol) = 44

(***************************************************************************)
(* C7                                                                      *)
(***************************************************************************)

\* prepareUrl has returned in this invocation
UrlResolved == pc \in {"loop", "await", "returned"} \/ (pc = "thrown" /\ requests # << >>)

\* C7 as the specification states it: for a supported chain identifier and
\* any credential, the URL that prepareUrl resolved holds the credential
\* and no "[api-key]".
C7_UrlHoldsCredential ==
    (chainId \in SupportedSet /\ UrlResolved) =>
        /\ Contains(url, apiKey)
        /\ ~Contains(url, Placeholder)

\* C7, amended: for a supported chain identifier, a credential holding a
\* lone surrogate makes prepareUrl throw a URIError before any request;
\* for every other credential the resolved URL holds the percent-encoded
\* credential (the credential itself when it is made of unreserved
\* characters only) between the template's two parts, and no "[api-key]".
C7_UrlHoldsEncodedCredential ==
    (chainId \in SupportedSet /\ pc # "idle") =>
        IF \E i \in 1..Len(apiKey) : apiKey[i] = LoneSurrogate
        THEN /\ pc = "thrown"
             /\ requests = << >>
             /\ outcome.error.name = URIErrorName
        ELSE /\ UrlResolved
             /\ Contains(url, UrlPrefix \o EncodeChars(apiKey) \o UrlMiddle)
             /\ AllIn(apiKey, UriUnreserved) => Contains(url, apiKey)
             /\ ~Contains(url, Placeholder)

C7_Witness ==
    /\ chainId = <<"4","2","1","6","1">>
    /\ apiKey = <<"[","a","p","i","-","k","e","y","]">>
    /\ pc = "returned"

(***************************************************************************)
(* C8                                                                      *)
(***************************************************************************)

\* C8: against the same responses, an invocation sends the requests of
\* every earlier invocation (the same url and cursor values, in the same
\* order) and settles as it did: with the same tags or the same error.
C8_InvocationsAgree ==
    \A j \in 1..Len(prev) :
        /\ Len(requests) <= Len(prev[j].requests)
        /\ \A k \in 1..Len(requests) : requests[k] = prev[j].requests[k]
        /\ pc \in {"returned", "thrown"} =>
              /\ outcome = prev[j].outcome
              /\ requests = prev[j].requests

C8_Witness ==
    /\ run = 2
    /\ pc = "returned"
    /\ Len(requests) = 2
    /\ requests[2].lastBlock > 0
    /\ Len(outcome.value) > 0

(***************************************************************************)
(* C9                                                                      *)
(***************************************************************************)

\* the mocked response that was handled last is a parsed envelope with at
\* least one service error
LastHadServiceErrors ==
    /\ env.mode = "mock"
    /\ pc # "await"
    /\ Len(requests) \in 1..Len(env.responses)
    /\ LET r == env.responses[Len(requests)]
       IN  /\ r.net = "resolve"
           /\ r.status \in 200..299
           /\ r.valid
           /\ r.errors.t = "array"
           /\ Len(r.errors.items) >= 1

\* C9: when the parsed envelope carries service errors, with or without a
\* data payload, the fetch fails with the aggregate error (which the
\* invocation rethrows wrapped), and the console holds one "GraphQL error"
\* line per service error, in their order, right before the line of the
\* catch block.
C9_ServiceErrorsFailAfterLogging ==
    LastHadServiceErrors =>
        LET errors == env.responses[Len(requests)].errors.items
            n == Len(errors)
            last == Len(console)
        IN  /\ pc = "thrown"
            /\ outcome.error.message =
                  <<"F","a","i","l","e","d"," ","f","e","t","c","h","i","n","g"," ","d","a","t","a",":"," ","E","r","r","o","r",":"," ">>
                  \o AggregateErrorMessage
            /\ last >= n + 1
            /\ \A i \in 1..n :
                  console[last - n - 1 + i] =
                      [level |-> "error",
                       text |-> <<"G","r","a","p","h","Q","L"," ","e","r","r","o","r",":"," ">> \o errors[i].message,
                       list |-> << >>]
            /\ console[last].text =
                  <<"A","n"," ","e","r","r","o","r"," ","o","c","c","u","r","r","e","d",":"," ">>
                  \o AggregateErrorMessage

C9_Witness ==
    /\ LastHadServiceErrors
    /\ Len(env.responses[Len(requests)].errors.items) = 2
    /\ env.responses[Len(requests)].data = "markets"
    /\ pc = "thrown"

(***************************************************************************)
(* C10                                                                     *)
(***************************************************************************)

\* C10: the i-th tag of the result is built from the i-th accepted record:
\* the address "eip155:<chainId>:<id>", the project name "Venus v4", the
\* link "https://venus.io/", and a note that holds the whole name.
C10_TagsFollowTemplates ==
    pc = "returned" =>
        LET accepted == Accepted
            tags == outcome.value
        IN  /\ Len(tags) = Len(accepted)
            /\ \A i \in 1..Len(tags) :
                  /\ tags[i].contractAddress
                        = <<"e","i","p","1","5","5",":">> \o chainId \o <<":">> \o accepted[i].id
                  /\ tags[i].projectName = <<"V","e","n","u","s"," ","v","4">>
                  /\ tags[i].websiteLink
                        = <<"h","t","t","p","s",":","/","/","v","e","n","u","s",".","i","o","/">>
                  /\ tags[i].publicNote
                        = <<"V","e","n","u","s"," ","v","4","'","s"," ","o","f","f","i","c","i","a","l"," ">>
                          \o accepted[i].name
                          \o <<" ","t","o","k","e","n"," ","(","I","s","o","l","a","t","e","d",")">>

C10_Witness ==
    /\ pc = "returned"
    /\ \E i \in 1..Len(outcome.value) : Len(outcome.value[i].publicNote) > 44 + 37
    /\ \E i \in 1..Len(Accepted) : Len(Accepted[i].name) > 44

(***************************************************************************)
(* C11                                                                     *)
(***************************************************************************)

\* the k-th request got a list of markets, which the try block went through
PageArrived(k) ==
    LET r == ResponseTo(k)
    IN  /\ ~r.rejected
        /\ r.ok
        /\ r.valid
        /\ ~Truthy(r.errors)
        /\ Truthy(r.data)
        /\ r.data.fields.markets.t = "array"

\* the records of the k-th response as the service or the mock sent them
RawPage(k) == ResponseTo(k).data.fields.markets.items

\* the greatest accrualBlockNumber of a page that has a record
MaxBlockOf(page) ==
    CHOOSE b \in {page[i].accrualBlockNumber : i \in 1..Len(page)} :
        \A i \in 1..Len(page) : page[i].accrualBlockNumber <= b

\* C11: the first fetch uses cursor 0; a fetch after the first follows a
\* page of exactly 1000 records and uses the greatest accrualBlockNumber of
\* that page as its cursor, and after such a page the loop goes on; after
\* a page of any other size, the empty page included, the loop is over,
\* the cursor is the one the page was asked with and no fetch can follow.
C11_CursorFollowsFullPages ==
    /\ Len(requests) >= 1 => requests[1].lastBlock = 0
    /\ (pc = "await" /\ Len(requests) >= 2) =>
          LET k == Len(requests)
              page == RawPage(k - 1)
          IN  /\ PageArrived(k - 1)
              /\ Len(page) = 1000
              /\ requests[k].lastBlock = MaxBlockOf(page)
    /\ (pc = "loop" /\ Len(requests) >= 1) =>
          LET k == Len(requests)
              page == RawPage(k)
          IN  /\ PageArrived(k)
              /\ IF Len(page) = 1000
                 THEN /\ isMore
                      /\ lastBlock = MaxBlockOf(page)
                      /\ ENABLED SendRequest
                      /\ ~ENABLED ReturnTags
                 ELSE /\ ~isMore
                      /\ lastBlock = requests[k].lastBlock
                      /\ ~ENABLED SendRequest
                      /\ ENABLED ReturnTags
    /\ pc = "returned" =>
          LET k == Len(requests)
          IN  /\ k >= 1
              /\ PageArrived(k)
              /\ Len(RawPage(k)) # 1000
              /\ lastBlock = requests[k].lastBlock
              /\ ~ENABLED SendRequest

\* a run has returned after a full page whose records come in descending
\* block order, 1006 the greatest, and a second page of three records
C11_Witness ==
    /\ pc = "returned"
    /\ Len(requests) = 2
    /\ requests[1].lastBlock = 0
    /\ Len(RawPage(1)) = 1000
    /\ RawPage(1)[1].accrualBlockNumber = 1006
    /\ RawPage(1)[1000].accrualBlockNumber = 7
    /\ requests[2].lastBlock = 1006
    /\ Len(RawPage(2)) = 3
    /\ lastBlock = 1006

(***************************************************************************)
(* C12                                                                     *)
(***************************************************************************)

IdsOf(markets) == {markets[i].id : i \in 1..Len(markets)}

\* the dataset has a record outside the k-th page with the block number
\* of that page's last record: two records with the same
\* accrualBlockNumber lie on both sides of the page's end
TieStraddles(dataset, k) ==
    LET page == RawPage(k)
    IN  /\ Len(page) = 1000
        /\ \E i \in 1..Len(dataset) :
              /\ dataset[i].accrualBlockNumber = page[1000].accrualBlockNumber
              /\ dataset[i].id \notin IdsOf(page)

\* C12: against a service that honours the query over a fixed dataset in
\* which no two records with the same accrualBlockNumber lie on both sides
\* of a page's end, a run that has returned has fetched every record of
\* the dataset in exactly one page: none twice, none skipped.
C12_EveryRecordInOnePage ==
    (env.mode = "service" /\ pc = "returned") =>
        LET dataset == Records(env.dataset)
            fetched == Fetched
        IN  (\A k \in 1..Len(requests) : ~TieStraddles(dataset, k)) =>
                /\ Cardinality(IdsOf(fetched)) = Len(fetched)
                /\ IdsOf(fetched) = IdsOf(dataset)

\* the same, for the datasets whose records all have an accrualBlockNumber
\* above the cursor the first fetch uses
EveryRecordAboveZeroInOnePage ==
    (env.mode = "service" /\ pc = "returned") =>
        LET dataset == Records(env.dataset)
            fetched == Fetched
        IN  (/\ \A i \in 1..Len(dataset) : dataset[i].accrualBlockNumber > 0
             /\ \A k \in 1..Len(requests) : ~TieStraddles(dataset, k)) =>
                /\ Cardinality(IdsOf(fetched)) = Len(fetched)
                /\ IdsOf(fetched) = IdsOf(dataset)

\* a run over 2001 records, two to a block number and none on both sides
\* of a page's end, has returned after three pages
EveryRecordAboveZeroWitness ==
    /\ env.mode = "service"
    /\ pc = "returned"
    /\ Len(requests) = 3
    /\ env.dataset.n = 2001
    /\ env.dataset.per = 2
    /\ \A k \in 1..3 : ~TieStraddles(Records(env.dataset), k)

(***************************************************************************)
(* C13                                                                     *)
(***************************************************************************)

\* the k-th response is a Page in the sense of the query: every record of
\* it has an accrualBlockNumber above the cursor it was requested with
HonoursCursor(k) ==
    PageArrived(k) =>
        LET page == RawPage(k)
        IN  \A i \in 1..Len(page) : page[i].accrualBlockNumber > requests[k].lastBlock

\* the cursors of the requests of this invocation, in the order sent
Cursors == [k \in 1..Len(requests) |-> requests[k].lastBlock]

\* C13 as stated: the cursor never decreases across a run, whatever the
\* pages hold; and when every page honours its cursor, every advance
\* increases it, so that no two fetches of a run use the same cursor.
C13_CursorNeverDecreases ==
    pc = "await" =>
        /\ \A k \in 2..Len(requests) : Cursors[k - 1] <= Cursors[k]
        /\ (\A k \in 1..(Len(requests) - 1) : HonoursCursor(k)) =>
              \A j, k \in 1..Len(requests) : j < k => Cursors[j] < Cursors[k]

\* C13, amended: when every page a run has got honours the cursor it was
\* requested with, the cursor never decreases and every advance increases
\* it, so that no two fetches of the run use the same cursor.
C13_CursorRisesWhenPagesHonourIt ==
    pc = "await" =>
        ((\A k \in 1..(Len(requests) - 1) : HonoursCursor(k)) =>
            \A j, k \in 1..Len(requests) : j < k => Cursors[j] < Cursors[k])

\* the third fetch of a run over 2001 records, one to a block number
C13_Witness ==
    /\ pc = "await"
    /\ env.mode = "service"
    /\ Len(requests) = 3
    /\ HonoursCursor(1)
    /\ HonoursCursor(2)
    /\ Cursors = <<0, 1000, 2000>>

(***************************************************************************)
(* C14                                                                     *)
(***************************************************************************)

\* Every invocation against a service that honours the query over a finite
\* dataset and never fails returns.
ServiceRunReturns == (env.mode = "service" /\ pc = "idle") ~> (pc = "returned")

\* Against such a service no fetch fails and no invocation throws.
ServiceRunNeverThrows == env.mode = "service" => pc # "thrown"

\* C14, its part on the datasets whose size is a multiple of 1000: a run
\* against a service that honours the query and never fails returns after
\* a last fetch that got an empty page.
C14_MultipleOfPageSizeEndsWithEmptyPage ==
    (env.mode = "service" /\ pc = "returned" /\ env.dataset.n % 1000 = 0) =>
        /\ Len(requests) >= 1
        /\ PageArrived(Len(requests))
        /\ Len(RawPage(Len(requests))) = 0

\* the same for the runs that skipped no record of the dataset
FetchedMultipleOfPageSizeEndsWithEmptyPage ==
    (env.mode = "service" /\ pc = "returned" /\ env.dataset.n % 1000 = 0) =>
        (Len(Fetched) = env.dataset.n =>
            /\ PageArrived(Len(requests))
            /\ Len(RawPage(Len(requests))) = 0)

\* a run over 2000 records has returned after two full pages and an empty
\* one
FetchedMultipleOfPageSizeWitness ==
    /\ env.mode = "service"
    /\ pc = "returned"
    /\ env.dataset.n = 2000
    /\ Len(Fetched) = 2000
    /\ Len(requests) = 3
    /\ Len(RawPage(3)) = 0

(***************************************************************************)
(* C15                                                                     *)
(***************************************************************************)

\* the number of records of a page that the Validator rejects
RejectedIn(page) == Len(SelectSeq(page, IsRejectable))

\* C15: when a page has been handled, whether the loop goes on is decided
\* by the number of records of the raw page alone, whatever number of them
\* was rejected, and the next cursor is the greatest accrualBlockNumber
\* among all its records, the rejected ones included; a full page whose
\* records are all rejected adds no tag and still leads to a next fetch.
C15_RejectedRecordsDoNotSteer ==
    (pc = "loop" /\ Len(requests) >= 1) =>
        LET k == Len(requests)
            page == RawPage(k)
            rejected == RejectedIn(page)
        IN  /\ PageArrived(k)
            /\ rejected \in 0..Len(page)
            /\ isMore = (Len(page) = 1000)
            /\ ENABLED SendRequest <=> Len(page) = 1000
            /\ Len(page) = 1000 =>
                  /\ \A i \in 1..1000 : page[i].accrualBlockNumber <= lastBlock
                  /\ \E i \in 1..1000 : page[i].accrualBlockNumber = lastBlock
            /\ Len(page) # 1000 => lastBlock = requests[k].lastBlock
            /\ (Len(page) = 1000 /\ rejected = 1000) =>
                  /\ isMore
                  /\ ENABLED SendRequest
                  /\ IsRejectable(page[1]) /\ page[1].accrualBlockNumber = lastBlock

\* the second fetch of a run whose first page held 1000 rejected records
C15_Witness ==
    /\ pc = "await"
    /\ Len(requests) = 2
    /\ Len(RawPage(1)) = 1000
    /\ RejectedIn(RawPage(1)) = 1000
    /\ allTags = << >>
    /\ requests[2].lastBlock = 1006

(***************************************************************************)
(* C16                                                                     *)
(***************************************************************************)

\* the requests of this invocation whose response is still to come
InFlight == Len(requests) - received

\* C16: an invocation never has more than one request in flight; while
\* one is in flight the invocation waits and the cursor is the one the
\* request carries, so that no advance is applied after the request was
\* sent; and a request after the first is sent only when the responses to
\* all earlier ones have been gone through.
C16_OneRequestInFlight ==
    /\ InFlight \in {0, 1}
    /\ InFlight = 1 <=> pc = "await"
    /\ pc = "await" => requests[Len(requests)].lastBlock = lastBlock
    /\ ENABLED SendRequest => InFlight = 0
    /\ \A k \in 2..Len(requests) : received >= k - 1

\* the second request of an invocation is in flight, the first response
\* has been gone through and has moved the cursor
C16_Witness ==
    /\ pc = "await"
    /\ Len(requests) = 2
    /\ received = 1
    /\ InFlight = 1
    /\ requests[1].lastBlock = 0
    /\ requests[2].lastBlock = 500000

(***************************************************************************)
(* C17                                                                     *)
(***************************************************************************)

\* the last request of this invocation has been answered and the answer
\* has been gone through
LastAnswered ==
    /\ received >= 1
    /\ received = Len(requests)
    /\ pc \in {"loop", "thrown"}

\* fetch resolved with a success status and a body that is JSON
IsEnvelope(r) == ~r.rejected /\ r.ok /\ r.valid

\* the errors member is absent or a list of no entries
NoServiceErrors(r) ==
    \/ r.errors.t = "undefined"
    \/ r.errors.t = "array" /\ Len(r.errors.items) = 0

\* the data member is an object whose markets member is a list
MarketsIsList(r) ==
    /\ r.data.t = "object"
    /\ r.data.fields.markets.t = "array"

\* C17: for a response with a success status, fetchData returns the list
\* data.markets, which may be empty, whenever the errors member is absent
\* or has no entries and data.markets is a list; and it fails with the
\* aggregate service error only when the errors member has an entry.
C17_SucceedsUnlessServiceErrors ==
    LastAnswered =>
        LET r == ResponseTo(received)
            result == fetchData(r)
        IN  IsEnvelope(r) =>
                /\ (NoServiceErrors(r) /\ MarketsIsList(r)) =>
                        /\ result = Return(r.data.fields.markets)
                        /\ pc = "loop"
                /\ (~result.ok /\ result.error.message = AggregateErrorMessage) =>
                        /\ r.errors.t = "array"
                        /\ Len(r.errors.items) >= 1

\* the same with the errors member absent: then fetchData returns the list
\* and never fails with the aggregate service error
AbsentErrorsSucceed ==
    LastAnswered =>
        LET r == ResponseTo(received)
            result == fetchData(r)
        IN  (IsEnvelope(r) /\ r.errors.t = "undefined" /\ MarketsIsList(r)) =>
                /\ result = Return(r.data.fields.markets)
                /\ pc = "loop"

\* a response with no errors member and an empty list has been gone through
AbsentErrorsWitness ==
    /\ LastAnswered
    /\ env.mode = "mock"
    /\ IsEnvelope(ResponseTo(received))
    /\ ResponseTo(received).errors.t = "undefined"
    /\ fetchData(ResponseTo(received)) = Return(Array(<< >>))
    /\ pc = "loop"

(***************************************************************************)
(* C18                                                                     *)
(***************************************************************************)

\* the data member is missing, or its markets member is missing, or its
\* markets member is no list
NoUsablePayload(r) ==
    \/ r.data.t \in {"undefined", "null"}
    \/ r.data.fields.markets.t \in {"undefined", "null"}
    \/ r.data.fields.markets.t # "array"

\* C18: for a response with a success status, no errors member and no
\* usable data payload, fetchData fails with the "No markets data found."
\* error, which the invocation rethrows wrapped.
C18_NoUsablePayloadFails ==
    LastAnswered =>
        LET r == ResponseTo(received)
            result == fetchData(r)
        IN  (IsEnvelope(r) /\ r.errors.t = "undefined" /\ NoUsablePayload(r)) =>
                /\ result = Throw(ErrorObject(ErrorName, NoDataMessage))
                /\ pc = "thrown"
                /\ outcome.error.message =
                      <<"F","a","i","l","e","d"," ","f","e","t","c","h","i","n","g"," ","d","a","t","a",":"," ","E","r","r","o","r",":"," ">>
                      \o NoDataMessage

\* the same for the payloads that are missing: data or data.markets
\* undefined or null
MissingPayloadFails ==
    LastAnswered =>
        LET r == ResponseTo(received)
            result == fetchData(r)
        IN  (/\ IsEnvelope(r)
             /\ r.errors.t = "undefined"
             /\ \/ r.data.t \in {"undefined", "null"}
                \/ r.data.fields.markets.t \in {"undefined", "null"}) =>
                /\ result = Throw(ErrorObject(ErrorName, NoDataMessage))
                /\ pc = "thrown"
                /\ outcome.error.message =
                      <<"F","a","i","l","e","d"," ","f","e","t","c","h","i","n","g"," ","d","a","t","a",":"," ","E","r","r","o","r",":"," ">>
                      \o NoDataMessage

\* a response whose data member has a null markets member has been gone
\* through
MissingPayloadWitness ==
    /\ LastAnswered
    /\ IsEnvelope(ResponseTo(received))
    /\ ResponseTo(received).errors.t = "undefined"
    /\ ResponseTo(received).data.t = "object"
    /\ ResponseTo(received).data.fields.markets.t = "null"
    /\ pc = "thrown"

(***************************************************************************)
(* C19                                                                     *)
(***************************************************************************)

\* C19: for the symbol of every fetched record, truncateString(symbol, 44)
\* is the symbol itself when the symbol has at most 44 characters, and
\* otherwise its first 41 characters followed by "...", which are 44
\* characters; it is never longer than 44 characters, and it is the symbol
\* part of the "Public Name Tag" of the record's tag.
C19_TruncatedSymbol ==
    pc = "returned" =>
        LET accepted == Accepted
            tags == outcome.value
        IN  /\ Len(tags) = Len(accepted)
            /\ \A i \in 1..Len(accepted) :
                  LET symbol == accepted[i].symbol
                      truncated == truncateString(symbol, 44)
                  IN  /\ Len(symbol) <= 44 => truncated = symbol
                      /\ Len(symbol) > 44 =>
                            /\ truncated = SubSeq(symbol, 1, 41) \o <<".", ".", ".">>
                            /\ Len(truncated) = 44
                      /\ Len(truncated) <= 44
                      /\ tags[i].publicNameTag = truncated \o <<" ","T","o","k","e","n">>

\* a run has returned tags for a symbol of 44 characters, kept whole, and
\* for symbols of 45 and of 50 characters, cut to 41 characters and "..."
C19_Witness ==
    /\ pc = "returned"
    /\ LET accepted == Accepted
           token == <<" ","T","o","k","e","n">>
       IN  /\ \E i \in 1..Len(accepted) :
                 /\ Len(accepted[i].symbol) = 44
                 /\ outcome.value[i].publicNameTag = accepted[i].symbol \o token
           /\ \E i \in 1..Len(accepted) :
                 /\ Len(accepted[i].symbol) = 45
                 /\ Len(truncateString(accepted[i].symbol, 44)) = 44
           /\ \E i \in 1..Len(accepted) :
                 /\ Len(accepted[i].symbol) = 50
                 /\ outcome.value[i].publicNameTag =
                       SubSeq(accepted[i].symbol, 1, 41) \o <<".", ".", ".">> \o token

====
